---------------------------- MODULE Spec2Model ----------------------------
(***************************************************************************)
(* Model of the two ETL scripts of the repository:                         *)
(*   src/circl_pdns_etl.py  passive-DNS: extract_pdns (generator with      *)
(*                          retry/backoff), transform_record,              *)
(*                          load_batch_to_mongo, run_etl, __main__         *)
(*   src/etl_shodan.py      host-scan: six extract/transform/load steps    *)
(*                                                                         *)
(* Five specifications share the variables:                                *)
(*   Spec           one run_etl call, with any arguments                   *)
(*   FairSpec       Spec with weak fairness (the script is one thread that *)
(*                  always takes its next step)                            *)
(*   SpecScripts    a run of either script's __main__                      *)
(*   SpecLoad       load_batch_to_mongo applied to bounded inputs          *)
(*   SpecTransform  transform_record applied to bounded inputs             *)
(***************************************************************************)
EXTENDS Integers, Sequences, FiniteSets, TLC

\* ------------------------------------------------------------------ bounds
\* Largest number of records one query of the mock source holds.
MaxRecords == 2
\* Largest limit a job is run with (0 stands for a falsy limit: None or 0).
MaxLimit == 3
\* Largest BATCH_SIZE the environment configures.
MaxBatch == 2
\* Largest batch handed to load_batch_to_mongo in SpecLoad.
MaxDocs == 4

\* ------------------------------------------------------ program constants
\* MAX_RETRIES = int(os.getenv("MAX_RETRIES", "3"))
MAX_RETRIES == 3
\* RETRY_BACKOFF = float(os.getenv("RETRY_BACKOFF", "1.5")), kept as the
\* fraction RETRY_BACKOFF_NUM / RETRY_BACKOFF_DEN.
RETRY_BACKOFF_NUM == 3
RETRY_BACKOFF_DEN == 2

VARIABLES
  \* --- passive-DNS script (Spec) ---
  BATCH_SIZE,      \* the configured batch size (line 50), fixed per run
  mainPc,          \* __main__: "loop" | "done" | "aborted"; "direct": no __main__
  jobIdx,          \* index of the job of hardcoded_queries being run
  summary,         \* __main__'s summary list
  etlPc,           \* run_etl: "idle" | "iter" | "body" | "returned" | "raised"
  job,             \* run_etl's arguments: [q, rrtype, limit, purge_old]
  cur,             \* the record the generator handed to run_etl's loop
  batch,           \* run_etl's batch
  processed,       \* run_etl's processed
  inserted_total,  \* run_etl's inserted_total
  genPc,           \* extract_pdns: "issue" | "pull" | "yielded" | "done" | "raised"
  count,           \* extract_pdns's count
  retries,         \* extract_pdns's retries
  srcLen,          \* number of records the query holds at the source
  srcPos,          \* records the current iter_query iterator has handed out
  genLog,          \* history: events of the current extract_pdns call
  storeCalls,      \* history: store calls of the current run_etl call
  lastLoad,        \* history: the last load_batch_to_mongo call of run_etl
  result,          \* what run_etl returned
  \* --- load_batch_to_mongo on its own (SpecLoad) ---
  ldPc, ldDocs, ldOutcome, ldRet, ldStoreCalls,
  \* --- transform_record on its own (SpecTransform) ---
  xfPc, xfIn, xfOut,
  \* --- host-scan script (SpecShodan) ---
  shPc, shIdx, shRaw, shDoc, shInserted, shAbort

etlVars == <<BATCH_SIZE, mainPc, jobIdx, summary, etlPc, job, cur, batch,
             processed, inserted_total, genPc, count, retries, srcLen,
             srcPos, genLog, storeCalls, lastLoad, result>>
ldVars == <<ldPc, ldDocs, ldOutcome, ldRet, ldStoreCalls>>
xfVars == <<xfPc, xfIn, xfOut>>
shVars == <<shPc, shIdx, shRaw, shDoc, shInserted, shAbort>>
vars == <<etlVars, ldVars, xfVars, shVars>>

\* ------------------------------------------------------------ Python values
\* A scalar: its class, its str(), its truth value, and ts: whether turning
\* it into a datetime (utcfromtimestamp(int(t)) for a number,
\* date_parser.parse(t) for a string) succeeds ("ok") or raises ("raises").
Py(c, s, b, t) == [cls |-> c, repr |-> s, truthy |-> b, ts |-> t]
PyNone == Py("NoneType", "None", FALSE, "raises")
PyStr(s) == Py("str", s, s # "", "raises")
PyInt(s, nonzero) == Py("int", s, nonzero, "ok")
PyDatetime(s) == Py("datetime", s, TRUE, "raises")

\* A dict is a function from its keys (strings) to values; dict.get(key) is
\* the value, or None when the key is absent.
Get(d, k) == IF k \in DOMAIN d THEN d[k] ELSE PyNone

EmptyDict == [k \in {} |-> PyNone]

\* A value handed to transform_record:
\*   cls     "dict" or another class name
\*   map     the mapping itself (cls = "dict"), else what dict(v) builds
\*   conv    whether dict(v) succeeds ("ok") or raises ("raises")
\*   repr    str(v)
\*   truthy  bool(v) of a non-dict (a dict is truthy iff it is non-empty)
Val(c, m, cv, s, b) == [cls |-> c, map |-> m, conv |-> cv, repr |-> s, truthy |-> b]
DictVal(m) == Val("dict", m, "ok", "{..}", TRUE)
NoneVal == Val("NoneType", EmptyDict, "raises", "None", FALSE)
Truthy(v) == IF v.cls = "dict" THEN DOMAIN v.map # {} ELSE v.truthy

\* A vendor record: the value itself and its .record attribute, if it has one.
Plain(v) == [self |-> v, hasRecord |-> FALSE, record |-> NoneVal]
WithRecord(v, r) == [self |-> v, hasRecord |-> TRUE, record |-> r]

\* --------------------------------------------------------- transform_record
\* The result of a datetime conversion that is modelled by its outcome.
utcnow == PyDatetime("utcnow()")

_parse_time_safe(t) ==
  IF t.cls = "NoneType" THEN PyNone
  ELSE IF t.cls \in {"int", "float"}
       THEN IF t.ts = "ok" THEN PyDatetime(t.repr) ELSE PyNone
       ELSE IF t.cls = "str"
            THEN IF t.ts = "ok" THEN PyDatetime(t.repr) ELSE PyNone
            ELSE PyNone

\* getattr(pypdns_record, "record", None) or pypdns_record
RecordOf(x) ==
  LET attr == IF x.hasRecord THEN x.record ELSE NoneVal
  IN IF Truthy(attr) THEN attr ELSE x.self

AsDictEmptyFallback(v) ==
  IF v.cls = "dict" THEN v.map
  ELSE IF v.conv = "ok" THEN v.map
       ELSE EmptyDict

\* if not isinstance(rec, dict): try dict(rec) except: {"raw": str(rec)}
AsDict(v) ==
  IF v.cls = "dict" THEN v.map
  ELSE IF v.conv = "ok" THEN v.map
       ELSE [raw |-> PyStr(v.repr)]

transform_record(x) ==
  LET rec == AsDict(RecordOf(x))
  IN [rrname |-> Get(rec, "rrname"),
      rrtype |-> Get(rec, "rrtype"),
      rdata |-> Get(rec, "rdata"),
      time_first |-> _parse_time_safe(Get(rec, "time_first")),
      time_last |-> _parse_time_safe(Get(rec, "time_last")),
      count |-> Get(rec, "count"),
      origin |-> Get(rec, "origin"),
      source |-> IF Get(rec, "source").truthy
                 THEN Get(rec, "source") ELSE Get(rec, "origin"),
      _raw |-> rec,
      _etl_ingested_at |-> utcnow,
      _etl_source |-> PyStr("circl_pdns")]

\* ------------------------------------------------------ load_batch_to_mongo
\* What collection.insert_many does with a batch:
\*   kind       "ok" | "bulk" (BulkWriteError) | "error" (any other exception)
\*   details    of a BulkWriteError: "None" | "nokey" (no nInserted) | "n"
\*   nInserted  the count the store reports when details = "n"
\*   persisted  the documents the store actually kept
Outcome(k, d, n, p) == [kind |-> k, details |-> d, nInserted |-> n, persisted |-> p]

StoreOutcomes(docs) ==
  {Outcome("ok", "None", 0, Len(docs))}
  \cup {Outcome("bulk", d, 0, p) : d \in {"None", "nokey"}, p \in 0..Len(docs)}
  \cup {Outcome("bulk", "n", n, n) : n \in 0..Len(docs)}
  \cup {Outcome("error", "None", 0, p) : p \in 0..Len(docs)}

InsertMany(docs) == [op |-> "insert_many", docs |-> docs]
DeleteMany == [op |-> "delete_many", docs |-> <<>>]

\* An optional int: <<>> is None, <<n>> is n.
\* details.get("nInserted") or details.get("nInserted", 0)
NInsertedOf(o) ==
  LET first == IF o.details = "n" THEN <<o.nInserted>> ELSE <<>>
      second == IF o.details = "n" THEN <<o.nInserted>> ELSE <<0>>
  IN IF first # <<>> /\ first[1] # 0 THEN first ELSE second

load_batch_to_mongo_CountsWholeBatch(docs, o) ==
  IF docs = <<>> THEN [ret |-> 0, calls |-> <<>>, raised |-> FALSE]
  ELSE [ret |-> Len(docs), calls |-> <<InsertMany(docs)>>, raised |-> FALSE]

\* The value returned, the store calls made, and whether an exception left.
load_batch_to_mongo(docs, o) ==
  IF docs = <<>> THEN [ret |-> 0, calls |-> <<>>, raised |-> FALSE]
  ELSE [ret |-> CASE o.kind = "ok" -> Len(docs)
                  [] o.kind = "bulk" ->
                       LET n == NInsertedOf(o)
                       IN IF n # <<>> /\ n[1] # 0 THEN n[1] ELSE 0
                  [] OTHER -> 0,
        calls |-> <<InsertMany(docs)>>,
        raised |-> FALSE]

\* ------------------------------------------------------------- the source
\* The i-th record the mock source holds for query q: a PyPDNS record
\* object whose .record is the mapping.
SourceRecord(q, i) ==
  WithRecord(Val("PDNSRecord", EmptyDict, "raises", "<PDNSRecord>", TRUE),
             DictVal([rrname |-> PyStr(q),
                      rrtype |-> PyStr("A"),
                      rdata |-> PyStr("192.0.2." \o ToString(i)),
                      time_first |-> PyInt("1700000000", TRUE),
                      time_last |-> Py("str", "2024-01-01T00:00:00", TRUE, "ok"),
                      count |-> PyInt(ToString(i), TRUE),
                      origin |-> PyStr("origin")]))

NoRecord == Plain(NoneVal)

\* -------------------------------------------------------------- extract_pdns
\* Events of one extract_pdns call, in order:
\*   issue   client.iter_query called; att = how many times so far
\*   yield   record n of the source handed to the consumer
\*   exc     the n-th exception of the call caught
\*   sleep   time.sleep(RETRY_BACKOFF ** n) = num/den seconds
\* time.sleep(REQUEST_DELAY) changes nothing the program reads and is not
\* logged: the sleeps of the log are the backoff sleeps.
Event(e, a, n, nu, de) == [ev |-> e, att |-> a, n |-> n, num |-> nu, den |-> de]

RECURSIVE Pow(_, _)
Pow(b, e) == IF e = 0 THEN 1 ELSE b * Pow(b, e - 1)

EventsOf(log, e) == {i \in DOMAIN log : log[i].ev = e}
Issues == Cardinality(EventsOf(genLog, "issue"))

\* if limit and count >= limit
LimitReachedOffByOne(limit, c) == limit # 0 /\ c > limit

LimitReached(limit, c) == limit # 0 /\ c >= limit

\* if retries > MAX_RETRIES
RetriesExceededOneEarly(r) == r >= MAX_RETRIES

RetriesExceeded(r) == r > MAX_RETRIES

\* sleep_for = RETRY_BACKOFF ** retries, as <<numerator, denominator>>
sleep_for_Linear(r) == <<RETRY_BACKOFF_NUM * r, RETRY_BACKOFF_DEN>>

sleep_for(r) == <<Pow(RETRY_BACKOFF_NUM, r), Pow(RETRY_BACKOFF_DEN, r)>>

\* for rec in client.iter_query(q=q, **kwargs): the call that opens the loop
GenIssue ==
  /\ etlPc = "iter" /\ genPc = "issue"
  /\ genLog' = Append(genLog, Event("issue", Issues + 1, 0, 0, 1))
  /\ srcPos' = 0
  /\ genPc' = "pull"
  /\ UNCHANGED <<BATCH_SIZE, mainPc, jobIdx, summary, etlPc, job,
                 cur, batch, processed, inserted_total, count, retries, srcLen,
                 storeCalls, lastLoad, result>>

\* the iterator hands over its next record: yield rec
GenYield ==
  /\ etlPc = "iter" /\ genPc = "pull"
  /\ srcPos < srcLen
  /\ srcPos' = srcPos + 1
  /\ genLog' = Append(genLog, Event("yield", Issues, srcPos + 1, 0, 1))
  /\ cur' = SourceRecord(job.q, srcPos + 1)
  /\ genPc' = "yielded"
  /\ etlPc' = "body"
  /\ UNCHANGED <<BATCH_SIZE, mainPc, jobIdx, summary, job, batch,
                 processed, inserted_total, count, retries, srcLen, storeCalls, lastLoad, result>>

\* resumed after the yield: count += 1, the limit check, the optional delay
GenResume ==
  /\ etlPc = "iter" /\ genPc = "yielded"
  /\ count' = count + 1
  /\ IF LimitReached(job.limit, count + 1)
     THEN genPc' = "done"
     ELSE genPc' = "pull"
  /\ UNCHANGED <<BATCH_SIZE, mainPc, jobIdx, summary, etlPc, job,
                 cur, batch, processed, inserted_total, retries, srcLen, srcPos,
                 genLog, storeCalls, lastLoad, result>>

\* the iterator is exhausted: "finished normally", return
GenExhausted ==
  /\ etlPc = "iter" /\ genPc = "pull"
  /\ srcPos = srcLen
  /\ genPc' = "done"
  /\ UNCHANGED <<BATCH_SIZE, mainPc, jobIdx, summary, etlPc, job,
                 cur, batch, processed, inserted_total, count, retries, srcLen,
                 srcPos, genLog, storeCalls, lastLoad, result>>

GenExceptReraises ==
  /\ etlPc = "iter" /\ genPc = "pull"
  /\ retries' = retries + 1
  /\ IF RetriesExceeded(retries + 1)
     THEN /\ genPc' = "raised"
          /\ genLog' = Append(genLog, Event("exc", Issues, retries + 1, 0, 1))
     ELSE /\ genPc' = "issue"
          /\ genLog' = genLog \o
               <<Event("exc", Issues, retries + 1, 0, 1),
                 Event("sleep", Issues, retries + 1,
                       sleep_for(retries + 1)[1], sleep_for(retries + 1)[2])>>
  /\ UNCHANGED <<BATCH_SIZE, mainPc, jobIdx, summary, etlPc, job,
                 cur, batch, processed, inserted_total, count, srcLen, srcPos,
                 storeCalls, lastLoad, result>>

GenExceptResetsCount ==
  /\ etlPc = "iter" /\ genPc = "pull"
  /\ retries' = retries + 1
  /\ count' = 0
  /\ IF RetriesExceeded(retries + 1)
     THEN /\ genPc' = "done"
          /\ genLog' = Append(genLog, Event("exc", Issues, retries + 1, 0, 1))
     ELSE /\ genPc' = "issue"
          /\ genLog' = genLog \o
               <<Event("exc", Issues, retries + 1, 0, 1),
                 Event("sleep", Issues, retries + 1,
                       sleep_for(retries + 1)[1], sleep_for(retries + 1)[2])>>
  /\ UNCHANGED <<BATCH_SIZE, mainPc, jobIdx, summary, etlPc, job,
                 cur, batch, processed, inserted_total, srcLen, srcPos,
                 storeCalls, lastLoad, result>>

\* the iterator raises: the except clause
GenExcept ==
  /\ etlPc = "iter" /\ genPc = "pull"
  /\ retries' = retries + 1
  /\ IF RetriesExceeded(retries + 1)
     THEN /\ genPc' = "done"
          /\ genLog' = Append(genLog, Event("exc", Issues, retries + 1, 0, 1))
     ELSE /\ genPc' = "issue"
          /\ genLog' = genLog \o
               <<Event("exc", Issues, retries + 1, 0, 1),
                 Event("sleep", Issues, retries + 1,
                       sleep_for(retries + 1)[1], sleep_for(retries + 1)[2])>>
  /\ UNCHANGED <<BATCH_SIZE, mainPc, jobIdx, summary, etlPc, job,
                 cur, batch, processed, inserted_total, count, srcLen, srcPos,
                 storeCalls, lastLoad, result>>

\* ------------------------------------------------------------------ run_etl
\* doc = transform_record(rec); doc["_query"] = query; doc["_query_rrtype"] = rrtype
DocOf(rec, q, rrtype) ==
  LET doc == transform_record(rec)
  IN [k \in DOMAIN doc \cup {"_query", "_query_rrtype"} |->
        IF k = "_query" THEN PyStr(q)
        ELSE IF k = "_query_rrtype" THEN rrtype
        ELSE doc[k]]

\* if len(batch) >= BATCH_SIZE
ShouldFlushWhenOver(b) == Len(b) > BATCH_SIZE

ShouldFlush(b) == Len(b) >= BATCH_SIZE

NoLoad == [kind |-> "none", ret |-> 0]
NoResult == [processed |-> 0, inserted |-> 0]
NoJob == [q |-> "", rrtype |-> PyNone, limit |-> 0, purge_old |-> FALSE]

\* inserted = load_batch_to_mongo(batch); inserted_total += inserted.
\* An exception leaving the loader would leave run_etl and, under __main__,
\* end the script.
Flush(b, after) ==
  \E o \in StoreOutcomes(b) :
    LET r == load_batch_to_mongo(b, o)
    IN /\ inserted_total' = inserted_total + r.ret
       /\ storeCalls' = storeCalls \o r.calls
       /\ lastLoad' = [kind |-> o.kind, ret |-> r.ret]
       /\ etlPc' = IF r.raised THEN "raised" ELSE after
       /\ mainPc' = IF r.raised /\ mainPc = "loop" THEN "aborted" ELSE mainPc

RunEtlEnterAlwaysPurges(q, rrtype, limit, purge_old, n) ==
  /\ job' = [q |-> q, rrtype |-> rrtype, limit |-> limit, purge_old |-> purge_old]
  /\ storeCalls' = <<DeleteMany>>
  /\ srcLen' = n
  /\ batch' = <<>> /\ processed' = 0 /\ inserted_total' = 0
  /\ genPc' = "issue" /\ count' = 0 /\ retries' = 0 /\ srcPos' = 0
  /\ genLog' = <<>> /\ lastLoad' = NoLoad /\ cur' = NoRecord
  /\ result' = NoResult
  /\ etlPc' = "iter"

\* run_etl up to its loop, for a source holding n records: the purge (an
\* exception of delete_many is caught and logged), then the generator object
\* and the counters
RunEtlEnter(q, rrtype, limit, purge_old, n) ==
  /\ job' = [q |-> q, rrtype |-> rrtype, limit |-> limit, purge_old |-> purge_old]
  /\ storeCalls' = IF purge_old THEN <<DeleteMany>> ELSE <<>>
  /\ srcLen' = n
  /\ batch' = <<>> /\ processed' = 0 /\ inserted_total' = 0
  /\ genPc' = "issue" /\ count' = 0 /\ retries' = 0 /\ srcPos' = 0
  /\ genLog' = <<>> /\ lastLoad' = NoLoad /\ cur' = NoRecord
  /\ result' = NoResult
  /\ etlPc' = "iter"

\* run_etl called on its own, with any arguments
RunEtlCall ==
  /\ mainPc = "direct" /\ etlPc = "idle"
  /\ \E q \in {"example.com"}, lim \in 0..MaxLimit, purge \in BOOLEAN,
        n \in 0..MaxRecords :
       RunEtlEnter(q, PyNone, lim, purge, n)
  /\ UNCHANGED <<BATCH_SIZE, mainPc, jobIdx, summary>>

\* the body of "for rec in gen": transform, append, count, flush a full batch
RunEtlBody ==
  /\ etlPc = "body"
  /\ LET b == Append(batch, DocOf(cur, job.q, job.rrtype))
     IN /\ processed' = processed + 1
        /\ IF ShouldFlush(b)
           THEN Flush(b, "iter") /\ batch' = <<>>
           ELSE /\ batch' = b /\ etlPc' = "iter"
                /\ UNCHANGED <<inserted_total, storeCalls, lastLoad, mainPc>>
  /\ UNCHANGED <<BATCH_SIZE, jobIdx, summary, job, cur, genPc,
                 count, retries, srcLen, srcPos, genLog, result>>

\* the generator has ended: flush the remainder and return the counts
RunEtlFinish ==
  /\ etlPc = "iter" /\ genPc \in {"done", "raised"}
  /\ IF genPc = "raised"
     THEN /\ etlPc' = "raised"
          /\ mainPc' = IF mainPc = "loop" THEN "aborted" ELSE mainPc
          /\ UNCHANGED <<inserted_total, storeCalls, lastLoad, result>>
     ELSE /\ IF batch # <<>>
             THEN Flush(batch, "returned")
             ELSE /\ etlPc' = "returned"
                  /\ UNCHANGED <<inserted_total, storeCalls, lastLoad, mainPc>>
          /\ result' = [processed |-> processed, inserted |-> inserted_total']
  /\ UNCHANGED <<BATCH_SIZE, jobIdx, summary, job, cur, batch,
                 processed, genPc, count, retries, srcLen, srcPos, genLog>>

\* ----------------------------------------------------- __main__ (pdns)
\* The job list of __main__. Its limits (500 and 200) are scaled to the
\* model's bounds, the first above the second.
hardcoded_queries ==
  <<[q |-> "example.com", rrtype |-> PyStr("A"), limit |-> MaxLimit],
    [q |-> "ietf.org", rrtype |-> PyNone, limit |-> MaxLimit - 1]>>

\* for job in hardcoded_queries: res = run_etl(..., purge_old=False)
MainNextJob ==
  /\ mainPc = "loop" /\ etlPc = "idle"
  /\ jobIdx <= Len(hardcoded_queries)
  /\ \E n \in 0..MaxRecords :
       RunEtlEnter(hardcoded_queries[jobIdx].q, hardcoded_queries[jobIdx].rrtype,
                   hardcoded_queries[jobIdx].limit, FALSE, n)
  /\ UNCHANGED <<BATCH_SIZE, mainPc, jobIdx, summary>>

\* summary.append({"query": job["q"], **res})
MainCollect ==
  /\ mainPc = "loop" /\ etlPc = "returned"
  /\ summary' = Append(summary, [query |-> job.q, processed |-> result.processed,
                                 inserted |-> result.inserted])
  /\ jobIdx' = jobIdx + 1
  /\ etlPc' = "idle"
  /\ UNCHANGED <<BATCH_SIZE, mainPc, job, cur, batch, processed, inserted_total,
                 genPc, count, retries, srcLen, srcPos, genLog, storeCalls,
                 lastLoad, result>>

\* every job has run: the summary is printed
MainDone ==
  /\ mainPc = "loop" /\ etlPc = "idle"
  /\ jobIdx > Len(hardcoded_queries)
  /\ mainPc' = "done"
  /\ UNCHANGED <<BATCH_SIZE, jobIdx, summary, etlPc, job, cur, batch, processed,
                 inserted_total, genPc, count, retries, srcLen, srcPos, genLog,
                 storeCalls, lastLoad, result>>

\* ------------------------------------------------------ the host-scan script
\* The collections of the six steps of etl_shodan.py's __main__, in order.
ShodanSteps ==
  <<"shodan_host_raw", "shodan_host_count", "shodan_host_search",
    "shodan_host_facets", "shodan_host_filters", "shodan_host_tokens">>

\* What fetch_json returns: None after a RequestException, else the JSON,
\* which may be empty (falsy); "badtime" is host JSON whose last_update or a
\* service timestamp the date parser rejects.
FetchResults(i) == {"None", "empty", "data"} \cup (IF i = 1 THEN {"badtime"} ELSE {})

\* raw_x = extract_shodan_x(...)
ShodanExtract ==
  /\ shPc = "extract"
  /\ \E r \in FetchResults(shIdx) : shRaw' = r
  /\ shPc' = "transform"
  /\ UNCHANGED <<shIdx, shDoc, shInserted, shAbort>>

\* doc_x = transform_x_data(raw_x): None for falsy data; parser.parse is
\* called outside any try
ShodanTransform ==
  /\ shPc = "transform"
  /\ IF shRaw \in {"None", "empty"}
     THEN shDoc' = "None" /\ shPc' = "load" /\ shAbort' = shAbort
     ELSE IF shRaw = "badtime"
          THEN shDoc' = shDoc /\ shPc' = "aborted" /\ shAbort' = "transform"
          ELSE shDoc' = "doc" /\ shPc' = "load" /\ shAbort' = shAbort
  /\ UNCHANGED <<shIdx, shRaw, shInserted>>

ShodanNextStep == IF shIdx = Len(ShodanSteps) THEN "done" ELSE "extract"

\* load_to_mongodb(collection_x, doc_x): insert_one is called outside any
\* try, so its exception leaves the function and ends the script
load_to_mongodb ==
  /\ shPc = "load"
  /\ IF shDoc # "None"
     THEN \E o \in {"ok", "error"} :
            IF o = "ok"
            THEN /\ shInserted' = Append(shInserted, ShodanSteps[shIdx])
                 /\ shPc' = ShodanNextStep
                 /\ shIdx' = IF shIdx = Len(ShodanSteps) THEN shIdx ELSE shIdx + 1
                 /\ shAbort' = shAbort
            ELSE /\ shPc' = "aborted" /\ shAbort' = "store"
                 /\ UNCHANGED <<shIdx, shInserted>>
     ELSE /\ shPc' = ShodanNextStep
          /\ shIdx' = IF shIdx = Len(ShodanSteps) THEN shIdx ELSE shIdx + 1
          /\ UNCHANGED <<shInserted, shAbort>>
  /\ UNCHANGED <<shRaw, shDoc>>

\* ------------------------------------------- the pure functions on their own
\* The i-th document of a batch.
SampleDoc(i) == DocOf(SourceRecord("example.com", i), "example.com", PyNone)

\* inserted = load_batch_to_mongo(docs)
LoadCall ==
  /\ ldPc = "call"
  /\ LET r == load_batch_to_mongo(ldDocs, ldOutcome)
     IN /\ ldRet' = r.ret
        /\ ldStoreCalls' = r.calls
        /\ ldPc' = IF r.raised THEN "raised" ELSE "returned"
  /\ UNCHANGED <<ldDocs, ldOutcome>>

\* Values of the fields of a vendor mapping.
TimeValues ==
  {PyInt("1700000000", TRUE),
   Py("int", "10**20", TRUE, "raises"),
   Py("str", "2024-01-01T00:00:00", TRUE, "ok"),
   Py("str", "not a date", TRUE, "raises"),
   Py("list", "[]", FALSE, "raises")}

TypedKeys ==
  {"rrname", "rrtype", "rdata", "time_first", "time_last", "count", "origin", "source"}

\* The mappings a vendor record may hold: any of four sample keys, and
\* time_first absent or with any of TimeValues.
Mappings ==
  LET fixed == [rrname |-> PyStr("example.com"), source |-> PyStr(""),
                origin |-> PyStr("sensor"), note |-> PyStr("x")]
  IN UNION {
       {[k \in ks |-> fixed[k]]}
       \cup {[k \in ks \cup {"time_first"} |->
                IF k = "time_first" THEN t ELSE fixed[k]] : t \in TimeValues}
       : ks \in SUBSET DOMAIN fixed}

\* The vendor records transform_record is applied to: a mapping; an object
\* whose .record is a mapping or None; a value that is neither, for which
\* dict() raises (an int, a string, None) or builds a mapping (a list of
\* pairs, an empty string).
VendorInputs ==
  {Plain(DictVal(m)) : m \in Mappings}
  \cup {WithRecord(Val("PDNSRecord", EmptyDict, "raises", "<PDNSRecord>", TRUE), DictVal(m)) :
          m \in Mappings}
  \cup {WithRecord(Val("PDNSRecord", EmptyDict, "raises", "<PDNSRecord>", TRUE), NoneVal)}
  \cup {Plain(Val("list", m, "ok", "[..]", DOMAIN m # {})) : m \in Mappings}
  \cup {Plain(Val("int", EmptyDict, "raises", "5", TRUE)),
        Plain(Val("str", EmptyDict, "raises", "abc", TRUE)),
        Plain(Val("str", EmptyDict, "ok", "", FALSE)),
        Plain(NoneVal)}

\* doc = transform_record(rec)
TransformCall ==
  /\ xfPc = "call"
  /\ xfOut' = transform_record(xfIn)
  /\ xfPc' = "returned"
  /\ UNCHANGED xfIn

\* ------------------------------------------------------------ specifications
NoOutcome == Outcome("ok", "None", 0, 0)

EtlIdle ==
  /\ jobIdx = 1 /\ summary = <<>>
  /\ etlPc = "idle" /\ job = NoJob /\ result = NoResult
  /\ cur = NoRecord /\ batch = <<>> /\ processed = 0 /\ inserted_total = 0
  /\ genPc = "done" /\ count = 0 /\ retries = 0 /\ srcLen = 0 /\ srcPos = 0
  /\ genLog = <<>> /\ storeCalls = <<>> /\ lastLoad = NoLoad

LdIdle ==
  /\ ldPc = "done" /\ ldDocs = <<>> /\ ldOutcome = NoOutcome
  /\ ldRet = 0 /\ ldStoreCalls = <<>>

XfIdle == xfPc = "done" /\ xfIn = NoRecord /\ xfOut = transform_record(NoRecord)

ShIdle ==
  /\ shPc = "done" /\ shIdx = 1 /\ shRaw = "None" /\ shDoc = "None"
  /\ shInserted = <<>> /\ shAbort = "none"

\* run_etl about to be called, under any configuration
Init ==
  /\ BATCH_SIZE \in 1..MaxBatch
  /\ mainPc = "direct"
  /\ EtlIdle /\ LdIdle /\ XfIdle /\ ShIdle

Next ==
  \/ (RunEtlCall /\ UNCHANGED <<ldVars, xfVars, shVars>>)
  \/ (GenIssue /\ UNCHANGED <<ldVars, xfVars, shVars>>)
  \/ (GenYield /\ UNCHANGED <<ldVars, xfVars, shVars>>)
  \/ (GenResume /\ UNCHANGED <<ldVars, xfVars, shVars>>)
  \/ (GenExhausted /\ UNCHANGED <<ldVars, xfVars, shVars>>)
  \/ (GenExcept /\ UNCHANGED <<ldVars, xfVars, shVars>>)
  \/ (RunEtlBody /\ UNCHANGED <<ldVars, xfVars, shVars>>)
  \/ (RunEtlFinish /\ UNCHANGED <<ldVars, xfVars, shVars>>)

Spec == Init /\ [][Next]_vars

\* Either script after its module-level setup.
InitScripts ==
  \/ /\ BATCH_SIZE \in 1..MaxBatch
     /\ mainPc = "loop"
     /\ EtlIdle /\ LdIdle /\ XfIdle /\ ShIdle
  \/ /\ BATCH_SIZE = 1 /\ mainPc = "done"
     /\ EtlIdle /\ LdIdle /\ XfIdle
     /\ shPc = "extract" /\ shIdx = 1 /\ shRaw = "None" /\ shDoc = "None"
     /\ shInserted = <<>> /\ shAbort = "none"

NextScripts ==
  \/ (MainNextJob /\ UNCHANGED <<ldVars, xfVars, shVars>>)
  \/ (GenIssue /\ UNCHANGED <<ldVars, xfVars, shVars>>)
  \/ (GenYield /\ UNCHANGED <<ldVars, xfVars, shVars>>)
  \/ (GenResume /\ UNCHANGED <<ldVars, xfVars, shVars>>)
  \/ (GenExhausted /\ UNCHANGED <<ldVars, xfVars, shVars>>)
  \/ (GenExcept /\ UNCHANGED <<ldVars, xfVars, shVars>>)
  \/ (RunEtlBody /\ UNCHANGED <<ldVars, xfVars, shVars>>)
  \/ (RunEtlFinish /\ UNCHANGED <<ldVars, xfVars, shVars>>)
  \/ (MainCollect /\ UNCHANGED <<ldVars, xfVars, shVars>>)
  \/ (MainDone /\ UNCHANGED <<ldVars, xfVars, shVars>>)
  \/ (ShodanExtract /\ UNCHANGED <<etlVars, ldVars, xfVars>>)
  \/ (ShodanTransform /\ UNCHANGED <<etlVars, ldVars, xfVars>>)
  \/ (load_to_mongodb /\ UNCHANGED <<etlVars, ldVars, xfVars>>)

SpecScripts == InitScripts /\ [][NextScripts]_vars

\* load_batch_to_mongo about to be called with any batch, the store about to
\* answer in any way.
InitLoad ==
  /\ BATCH_SIZE = 1 /\ mainPc = "done"
  /\ EtlIdle /\ XfIdle /\ ShIdle
  /\ ldPc = "call"
  /\ ldDocs \in {[i \in 1..n |-> SampleDoc(i)] : n \in 0..MaxDocs}
  /\ ldOutcome \in StoreOutcomes(ldDocs)
  /\ ldRet = 0 /\ ldStoreCalls = <<>>

SpecLoad == InitLoad /\ [][LoadCall /\ UNCHANGED <<etlVars, xfVars, shVars>>]_vars

\* transform_record about to be called with any vendor record.
InitTransform ==
  /\ BATCH_SIZE = 1 /\ mainPc = "done"
  /\ EtlIdle /\ LdIdle /\ ShIdle
  /\ xfPc = "call"
  /\ xfIn \in VendorInputs
  /\ xfOut = transform_record(NoRecord)

SpecTransform ==
  InitTransform /\ [][TransformCall /\ UNCHANGED <<etlVars, ldVars, shVars>>]_vars

\* The script is one thread that always takes its next step, and every
\* pull from the source returns or raises (each attempt is finite).
FairSpec == Spec /\ WF_vars(Next)

\* ---------------------------------------------------- properties of run_etl
Range(f) == {f[i] : i \in DOMAIN f}
IsYield(e) == e.ev = "yield"
IsInsert(c) == c.op = "insert_many"

\* The yield events of the call, in order, and the records yielded.
Yielded == SelectSeq(genLog, IsYield)
YieldedRecs == [i \in 1..Len(Yielded) |-> Yielded[i].n]
\* The yields of attempt a, in order.
YieldsOf(a) == SelectSeq(genLog, LAMBDA e : e.ev = "yield" /\ e.att = a)
\* The attempts that raised.
FailedAttempts == {genLog[i].att : i \in EventsOf(genLog, "exc")}
\* Records yielded by attempts that raised.
FailedYields == Cardinality({i \in EventsOf(genLog, "yield") : genLog[i].att \in FailedAttempts})
InCall == etlPc # "idle"
Ended == genPc \in {"done", "raised"}
Exhausted == InCall /\ Ended /\ retries > MAX_RETRIES

\* The batches handed to insert_many, in order, and their documents in one row.
Batches == SelectSeq(storeCalls, IsInsert)
RECURSIVE Flatten(_)
Flatten(bs) == IF bs = <<>> THEN <<>> ELSE Head(bs).docs \o Flatten(Tail(bs))

\* C1: with a limit K >= 1 and a source that holds more than K records and
\* does not fail, the generator yields the first K records in order and then
\* ends, and the iterator is never asked for a (K+1)-th record.
C1_LimitHonoured ==
  (InCall /\ job.limit >= 1 /\ srcLen > job.limit /\ retries = 0) =>
    /\ srcPos <= job.limit
    /\ YieldedRecs = [i \in 1..srcPos |-> i]
    /\ (genPc = "pull" => srcPos < job.limit)
    /\ (Ended => genPc = "done" /\ YieldedRecs = [i \in 1..job.limit |-> i])

C1_Witness ==
  /\ etlPc = "returned" /\ genPc = "done"
  /\ job.limit >= 1 /\ srcLen > job.limit /\ retries = 0
  /\ Len(Yielded) = job.limit

\* C2 as claimed: when the query raised on R <= MAX_RETRIES attempts and the
\* limit (if any) is not below the size of the record set, every record of
\* the set has been yielded when the generator ends.
C2_Original ==
  (InCall /\ Ended /\ retries <= MAX_RETRIES
     /\ (job.limit = 0 \/ job.limit >= srcLen)) =>
    \A i \in 1..srcLen : i \in Range(YieldedRecs)

\* C2 amended: when the query raised on R <= MAX_RETRIES attempts, and no
\* limit is given or the limit is at least the number of records yielded by
\* the failed attempts plus the size of the record set, the attempt after the
\* last failure yields every record of the set, in order, before the
\* generator ends.
C2_RetrySuccess ==
  (InCall /\ Ended /\ retries <= MAX_RETRIES
     /\ (job.limit = 0 \/ job.limit >= FailedYields + srcLen)) =>
    /\ genPc = "done"
    /\ Issues = retries + 1
    /\ [i \in 1..Len(YieldsOf(Issues)) |-> YieldsOf(Issues)[i].n] = [i \in 1..srcLen |-> i]

C2_Witness ==
  /\ etlPc = "returned" /\ genPc = "done"
  /\ retries >= 1 /\ retries <= MAX_RETRIES
  /\ FailedYields >= 1 /\ srcLen >= 1
  /\ job.limit >= FailedYields + srcLen
  /\ Len(YieldsOf(Issues)) = srcLen

\* C3 as claimed: when the query raised more than MAX_RETRIES times the
\* generator ends without raising, and every record it yielded came from an
\* attempt that did not fail.
C3_Original ==
  Exhausted =>
    /\ genPc = "done"
    /\ \A i \in DOMAIN Yielded : Yielded[i].att \notin FailedAttempts

\* C3 amended: when the query raised more than MAX_RETRIES times the
\* generator ends without raising and run_etl returns; all MAX_RETRIES + 1
\* attempts failed, and what was yielded is, attempt by attempt, the records
\* the source handed over before that attempt failed: a prefix of the record
\* set in source order.
C3_RetryExhaustion ==
  Exhausted =>
    /\ genPc = "done" /\ etlPc # "raised"
    /\ retries = MAX_RETRIES + 1 /\ Issues = MAX_RETRIES + 1
    /\ FailedAttempts = 1..(MAX_RETRIES + 1)
    /\ genLog[Len(genLog)].ev = "exc"
    /\ \A a \in 1..Issues :
         /\ Len(YieldsOf(a)) <= srcLen
         /\ \A i \in 1..Len(YieldsOf(a)) : YieldsOf(a)[i].n = i

C3_Witness ==
  /\ Exhausted /\ etlPc = "returned"
  /\ Len(Yielded) >= 2
  /\ job.limit = 0

\* The documents run_etl has built so far, in order: those handed to the
\* loader and, while the loop runs, those waiting in the batch.
DocsBuilt == Flatten(Batches) \o (IF etlPc = "returned" THEN <<>> ELSE batch)

\* C5: each record the extractor yielded is normalized and handed to the
\* loader once, in the order yielded; every batch handed over has between 1
\* and BATCH_SIZE documents and all but the last exactly BATCH_SIZE; the
\* processed count returned is the number of records yielded.
C5_BatchFlushing ==
  (InCall /\ etlPc \in {"iter", "returned"}) =>
    /\ Len(DocsBuilt) = Len(Yielded)
    /\ \A i \in 1..Len(Yielded) :
         LET src == SourceRecord(job.q, Yielded[i].n).record.map
         IN /\ DocsBuilt[i]["_raw"] = src
            /\ DocsBuilt[i]["rdata"] = src["rdata"]
            /\ DocsBuilt[i]["_query"] = PyStr(job.q)
            /\ DocsBuilt[i]["_etl_source"] = PyStr("circl_pdns")
    /\ \A k \in 1..Len(Batches) :
         /\ Len(Batches[k].docs) \in 1..BATCH_SIZE
         /\ (k < Len(Batches) \/ etlPc = "iter") => Len(Batches[k].docs) = BATCH_SIZE
    /\ Len(batch) < BATCH_SIZE
    /\ processed = Len(Yielded)
    /\ (etlPc = "returned" =>
          /\ result.processed = Len(Yielded)
          /\ result.inserted <= result.processed)

C5_Witness ==
  /\ etlPc = "returned"
  /\ Len(Batches) >= 2
  /\ Len(Batches[Len(Batches)].docs) < BATCH_SIZE
  /\ result.processed = 3

\* C6 as claimed: a run_etl call on a query with no records returns
\* {processed: 0, inserted: 0} and has made no store call.
C6_Original ==
  (etlPc = "returned" /\ srcLen = 0) =>
    /\ result = [processed |-> 0, inserted |-> 0]
    /\ storeCalls = <<>>

\* C6 amended: a run_etl call on a query with no records returns
\* {processed: 0, inserted: 0} and makes no insert call; it makes no store
\* call at all when purge_old is false, and exactly the one delete_many call
\* of the purge when purge_old is true.
C6_ZeroRecords ==
  (etlPc = "returned" /\ srcLen = 0) =>
    /\ result = [processed |-> 0, inserted |-> 0]
    /\ Batches = <<>> /\ lastLoad = NoLoad
    /\ storeCalls = IF job.purge_old THEN <<DeleteMany>> ELSE <<>>

C6_Witness ==
  /\ etlPc = "returned" /\ srcLen = 0 /\ retries = 0
  /\ ~job.purge_old /\ storeCalls = <<>>

\* The ordinal of the exception logged at position i of the call's log.
ExcOrdinal(i) == Cardinality({j \in EventsOf(genLog, "exc") : j <= i})

\* C9, the protocol: the n-th exception of a call (n <= MAX_RETRIES) is
\* followed by one sleep of RETRY_BACKOFF^n and then by a re-issue of the
\* query, which starts again at the first record; the (MAX_RETRIES+1)-th ends
\* the generator with no sleep and no re-issue; there is no other sleep or
\* re-issue, so the query is issued at most MAX_RETRIES + 1 times.
C9_Protocol ==
  InCall =>
    /\ \A i \in EventsOf(genLog, "exc") :
         LET n == ExcOrdinal(i)
         IN IF n <= MAX_RETRIES
            THEN /\ i + 1 <= Len(genLog)
                 /\ genLog[i + 1].ev = "sleep"
                 /\ genLog[i + 1].num = Pow(RETRY_BACKOFF_NUM, n)
                 /\ genLog[i + 1].den = Pow(RETRY_BACKOFF_DEN, n)
                 /\ IF i + 2 <= Len(genLog)
                    THEN genLog[i + 2].ev = "issue"
                    ELSE genPc = "issue"
            ELSE /\ n = MAX_RETRIES + 1
                 /\ i = Len(genLog)
                 /\ genPc = "done"
    /\ \A i \in EventsOf(genLog, "sleep") : i > 1 /\ genLog[i - 1].ev = "exc"
    /\ \A i \in EventsOf(genLog, "issue") :
         /\ i = 1 \/ genLog[i - 1].ev = "sleep"
         /\ (i + 1 <= Len(genLog) /\ genLog[i + 1].ev = "yield") => genLog[i + 1].n = 1
    /\ Issues <= MAX_RETRIES + 1
    /\ Issues = (IF genPc = "issue" THEN 0 ELSE 1) + Cardinality(EventsOf(genLog, "sleep"))

\* C9: the protocol holds throughout, and every call ends.
C9_RetryProtocol == []C9_Protocol /\ <>(etlPc = "returned")

C9_Witness ==
  /\ etlPc = "returned" /\ genPc = "done"
  /\ retries = MAX_RETRIES + 1
  /\ Issues = MAX_RETRIES + 1
  /\ Cardinality(EventsOf(genLog, "sleep")) = MAX_RETRIES
  /\ Len(Yielded) >= 1

\* C10: count is carried across retries: it is the number of records yielded
\* and resumed from, over all attempts; so with a limit K >= 1 at most K
\* records are yielded in total, repeats included, and run_etl's processed
\* count never exceeds K.
C10_LimitCapsTotal ==
  InCall =>
    /\ count + (IF genPc = "yielded" THEN 1 ELSE 0) = Len(Yielded)
    /\ job.limit >= 1 =>
         /\ Len(Yielded) <= job.limit
         /\ processed <= job.limit
         /\ (etlPc = "returned" => result.processed <= job.limit)
         /\ (genPc = "pull" => count < job.limit)

C10_Witness ==
  /\ etlPc = "returned" /\ job.limit >= 2 /\ retries >= 1
  /\ Len(Yielded) = job.limit /\ result.processed = job.limit
  /\ Cardinality(Range(YieldedRecs)) < Len(Yielded)
  /\ \E i \in 1..srcLen : i \notin Range(YieldedRecs)

\* ---------------------------------------- properties of load_batch_to_mongo
\* C4: load_batch_to_mongo returns a number and lets no exception out: 0 for
\* an empty batch, with no store call; else one insert_many call and the
\* number of inserted ids on success, the reported nInserted on a
\* BulkWriteError whose details hold it, 0 on a BulkWriteError without it and
\* on any other exception; never more than the store persisted.
C4_LoaderCounts ==
  /\ ldPc # "raised"
  /\ ldPc = "returned" =>
       /\ ldDocs = <<>> => (ldRet = 0 /\ ldStoreCalls = <<>>)
       /\ ldDocs # <<>> =>
            /\ ldStoreCalls = <<[op |-> "insert_many", docs |-> ldDocs]>>
            /\ ldOutcome.kind = "ok" => ldRet = Len(ldDocs)
            /\ (ldOutcome.kind = "bulk" /\ ldOutcome.details = "n") =>
                 ldRet = ldOutcome.nInserted
            /\ (ldOutcome.kind = "bulk" /\ ldOutcome.details # "n") => ldRet = 0
            /\ ldOutcome.kind = "error" => ldRet = 0
            /\ ldRet <= ldOutcome.persisted

C4_Witness ==
  /\ ldPc = "returned" /\ Len(ldDocs) = 3
  /\ ldOutcome.kind = "bulk" /\ ldOutcome.details = "n"
  /\ ldOutcome.nInserted = 2 /\ ldRet = 2

\* ------------------------------------------- properties of the two scripts
\* A load of the passive-DNS script that failed completely counted 0 and
\* let no exception out.
PdnsStoreFailureNotFatal ==
  lastLoad.kind = "error" =>
    /\ lastLoad.ret = 0
    /\ etlPc # "raised" /\ mainPc # "aborted"

\* A failed insert_one of the host-scan script does not end the script.
ShodanStoreFailureNotFatal == ~(shPc = "aborted" /\ shAbort = "store")

\* C7: a store insert that fails completely never ends a run: the batch or
\* document counts as zero inserted and the script goes on with the
\* remaining batches, jobs and endpoints; in both scripts.
C7_StoreFailureNotFatal ==
  PdnsStoreFailureNotFatal /\ ShodanStoreFailureNotFatal

\* ------------------------------------------- properties of transform_record
\* Every mapping the vendor record shows (itself, what dict() builds of it,
\* its .record) lacks every typed field.
MissingAll(x) ==
  /\ DOMAIN x.self.map \cap TypedKeys = {}
  /\ DOMAIN x.record.map \cap TypedKeys = {}

TypedFieldsNone(doc) == \A k \in TypedKeys : doc[k] = PyNone

\* The vendor record is an empty mapping, or dict() builds an empty mapping
\* of it (an empty string, an empty list).
ShowsEmptyMapping(x) ==
  /\ ~(x.hasRecord /\ x.record.cls = "dict" /\ DOMAIN x.record.map # {})
  /\ x.self.cls = "dict" \/ x.self.conv = "ok"
  /\ DOMAIN x.self.map = {}

\* C8 as claimed: for a vendor record lacking every typed field,
\* transform_record returns a document whose typed fields are all None, whose
\* _raw is non-empty and which carries _etl_ingested_at and _etl_source.
C8_Original ==
  (xfPc = "returned" /\ MissingAll(xfIn)) =>
    /\ TypedFieldsNone(xfOut)
    /\ DOMAIN xfOut._raw # {}
    /\ xfOut._etl_ingested_at = utcnow
    /\ xfOut._etl_source = PyStr("circl_pdns")

\* C8 amended: for a vendor record lacking every typed field,
\* transform_record returns a document whose typed fields are all None and
\* which carries _etl_ingested_at and _etl_source; _raw is present: the
\* record's own mapping, or {"raw": str(record)} when it has none; it is
\* empty exactly when the record is an empty mapping or dict() builds an
\* empty mapping of it.
C8_TransformTotal ==
  (xfPc = "returned" /\ MissingAll(xfIn)) =>
    /\ TypedFieldsNone(xfOut)
    /\ xfOut._etl_ingested_at = utcnow
    /\ xfOut._etl_source = PyStr("circl_pdns")
    /\ (DOMAIN xfOut._raw = {}) <=> ShowsEmptyMapping(xfIn)
    /\ (xfIn.self.cls # "dict" /\ xfIn.self.conv = "raises"
          /\ ~(xfIn.hasRecord /\ Truthy(xfIn.record))) =>
         xfOut._raw = [raw |-> PyStr(xfIn.self.repr)]
    /\ (xfIn.self.cls = "dict" /\ ~xfIn.hasRecord) => xfOut._raw = xfIn.self.map
    /\ (xfIn.hasRecord /\ xfIn.record.cls = "dict" /\ DOMAIN xfIn.record.map # {}) =>
         xfOut._raw = xfIn.record.map

C8_Witness ==
  /\ xfPc = "returned" /\ MissingAll(xfIn)
  /\ xfIn.self.cls = "int"
  /\ xfOut._raw = [raw |-> PyStr("5")]
  /\ TypedFieldsNone(xfOut)

=============================================================================
